---------------------------- MODULE Spec2Model ----------------------------
(***************************************************************************)
(* A model of sync-cloud-images.py: the configuration loader, the checksum *)
(* manifest handling and the release synchroniser driven by main.          *)
(*                                                                         *)
(* Text is modelled as a sequence of one-character strings, so that        *)
(* lower(), substring tests and prefix tests are computed, not assumed.    *)
(* A manifest text is a sequence of lines; a line is its whitespace-       *)
(* separated parts together with the line terminator that ends it.  A file *)
(* content is an opaque name whose digest is given by a table (a hash is   *)
(* not computable here).                                                   *)
(***************************************************************************)
EXTENDS Integers, Sequences, FiniteSets, TLC

(***************************************************************************)
(* Bounds of the model.                                                    *)
(***************************************************************************)
\* largest value of --retries tried (0 is tried too, and rejected by main)
MaxRetries == 2
\* number of invocations of main, one after the other on the same images dir
MaxRuns == 2

None == [t |-> "none"]

(***************************************************************************)
(* Strings.                                                                *)
(***************************************************************************)
UpperToLower ==
    [A |-> "a", B |-> "b", C |-> "c", D |-> "d", E |-> "e", F |-> "f",
     G |-> "g", H |-> "h", I |-> "i", J |-> "j", K |-> "k", L |-> "l",
     M |-> "m", N |-> "n", O |-> "o", P |-> "p", Q |-> "q", R |-> "r",
     S |-> "s", T |-> "t", U |-> "u", V |-> "v", W |-> "w", X |-> "x",
     Y |-> "y", Z |-> "z"]

\* str.lower()
Lower(s) ==
    [i \in 1..Len(s) |-> IF s[i] \in DOMAIN UpperToLower THEN UpperToLower[s[i]] ELSE s[i]]

\* sub in s
Contains(s, sub) ==
    \E i \in 1..(Len(s) - Len(sub) + 1) : SubSeq(s, i, i + Len(sub) - 1) = sub

\* s.lstrip(ch)
RECURSIVE LStrip(_, _)
LStrip(s, ch) ==
    IF s # <<>> /\ Head(s) = ch THEN LStrip(Tail(s), ch) ELSE s

(***************************************************************************)
(* detect_hash_algorithm: the first algorithm name, in the order of the    *)
(* tuple, that occurs in the lower-cased file name; SyncError otherwise.   *)
(***************************************************************************)
\* mutant of HashAlgorithms: md5 is tried first
HashAlgorithms_Md5First ==
    << <<"m","d","5">>, <<"s","h","a","5","1","2">>, <<"s","h","a","3","8","4">>,
       <<"s","h","a","2","5","6">>, <<"s","h","a","1">> >>

HashAlgorithms ==
    << <<"s","h","a","5","1","2">>, <<"s","h","a","3","8","4">>,
       <<"s","h","a","2","5","6">>, <<"s","h","a","1">>, <<"m","d","5">> >>

detect_hash_algorithm(checksum_file) ==
    LET lowered == Lower(checksum_file)
        hits == {i \in 1..Len(HashAlgorithms) : Contains(lowered, HashAlgorithms[i])}
    IN  IF hits = {}
        THEN [err |-> "SyncError", kind |-> "algorithm"]
        ELSE [err |-> "", algo |-> HashAlgorithms[CHOOSE i \in hits : \A j \in hits : i <= j]]

(***************************************************************************)
(* parse_checksums.  A line is [parts, eol]: parts are what line.split()   *)
(* returns, eol the terminator splitlines() removes.  The result is the    *)
(* manifest as a sequence of [name, digest] in order of appearance; a      *)
(* lookup takes the last entry of a name (a later line overwrites).        *)
(***************************************************************************)
RECURSIVE parse_checksums_from(_, _)
parse_checksums_from(checksum_text, i) ==
    IF i > Len(checksum_text) THEN <<>>
    ELSE LET parts == checksum_text[i].parts
             rest == parse_checksums_from(checksum_text, i + 1)
         IN  IF parts = <<>> \/ Head(Head(parts)) = "#" \/ Len(parts) < 2
             THEN rest
             ELSE LET digest == parts[1]
                      last == parts[Len(parts)]
                      filename == IF Head(last) \in {"*", "."} THEN LStrip(last, "*") ELSE last
                  IN  <<[name |-> filename, digest |-> digest]>> \o rest

parse_checksums(checksum_text) == parse_checksums_from(checksum_text, 1)

\* artifact in checksums
InChecksums(checksums, artifact) ==
    \E i \in 1..Len(checksums) : checksums[i].name = artifact

\* checksums[artifact]
ChecksumOf(checksums, artifact) ==
    LET hits == {i \in 1..Len(checksums) : checksums[i].name = artifact}
    IN  checksums[CHOOSE i \in hits : \A j \in hits : j <= i].digest

(***************************************************************************)
(* Path.write_text / Path.read_text of the marker.  write_text stores the  *)
(* text as it is (os.linesep is LF); read_text opens the file with         *)
(* universal newlines, which turns every CRLF and CR terminator into LF.   *)
(***************************************************************************)
write_text(text) == text

read_text(bytes) ==
    [i \in 1..Len(bytes) |-> [parts |-> bytes[i].parts, eol |-> "LF"]]

(***************************************************************************)
(* calculate_digest: hashlib's hexdigest of a file content, lower-case hex.*)
(***************************************************************************)
Contents == {"c1", "c2"}

HexDigest ==
    [c1 |-> <<"a", "1">>, c2 |-> <<"b", "2">>]

calculate_digest(content, algorithm) ==
    IF algorithm = <<"s","h","a","2","5","6">> THEN HexDigest[content]
    ELSE HexDigest[content] \o <<"f">>


(***************************************************************************)
(* ConfigValue: what load_simple_yaml returns.  A mapping is a sequence of *)
(* [k, val] entries with distinct keys, in insertion order (a dict).       *)
(***************************************************************************)
Str(s) == [t |-> "str", v |-> s]
Bool(b) == [t |-> "bool", v |-> b]
Map(entries) == [t |-> "map", v |-> entries]
List(items) == [t |-> "list", v |-> items]

\* key in mapping
HasKey(m, key) == \E i \in 1..Len(m.v) : m.v[i].k = key

\* mapping.get(key, default)
Get(m, key, default) ==
    IF HasKey(m, key)
    THEN m.v[CHOOSE i \in 1..Len(m.v) : m.v[i].k = key].val
    ELSE default

\* bool(value)
Truthy(x) ==
    CASE x.t = "none" -> FALSE
      [] x.t = "bool" -> x.v
      [] OTHER -> Len(x.v) > 0

\* str(value) of a sequence item
ToStr(x) ==
    CASE x.t = "str" -> x.v
      [] x.t = "bool" -> IF x.v THEN <<"T","r","u","e">> ELSE <<"F","a","l","s","e">>
      [] OTHER -> <<"{", "}">>

(***************************************************************************)
(* The names and the configuration files of the model.                     *)
(***************************************************************************)
deb == <<"d","e","b">>
alp == <<"a","l","p">>
nope == <<"n","o","p","e">>
r1 == <<"r","1">>
r2 == <<"r","2">>
zz == <<"z","z">>
disk == <<"d">>
kernel == <<"k">>
BaseURL == <<"h",":","/","/","x","/">>
SHA256SUMS == <<"S","H","A","2","5","6","S","U","M","S">>
SUMS == <<"S","U","M","S">>

kBaseURL == <<"b","a","s","e","U","R","L">>
kReleases == <<"r","e","l","e","a","s","e","s">>
kReleaseURL == <<"r","e","l","e","a","s","e","U","R","L">>
kRemoteChecksums == <<"r","e","m","o","t","e","C","h","e","c","k","s","u","m","s">>
kArtifacts == <<"a","r","t","i","f","a","c","t","s">>
kDistros == <<"d","i","s","t","r","o","s">>

Entry(key, value) == [k |-> key, val |-> value]

ReleaseCfg(checksum_file, artifacts) ==
    Map(<< Entry(kRemoteChecksums, Str(checksum_file)),
           Entry(kArtifacts, List([i \in 1..Len(artifacts) |-> Str(artifacts[i])])) >>)

DistroCfg(releases) ==
    Map(<< Entry(kBaseURL, Str(BaseURL)), Entry(kReleases, Map(releases)) >>)

TopCfg(releases) ==
    Map(<< Entry(kDistros, Map(<< Entry(deb, DistroCfg(releases)) >>)) >>)

\* the configuration files tried: what load_simple_yaml returns for each,
\* or None for a path that is no file
ConfigFiles ==
    << \* one release with two artifacts
       TopCfg(<< Entry(r1, ReleaseCfg(SHA256SUMS, <<disk, kernel>>)) >>),
       \* two releases with one artifact each
       TopCfg(<< Entry(r1, ReleaseCfg(SHA256SUMS, <<disk>>)),
                 Entry(r2, ReleaseCfg(SHA256SUMS, <<kernel>>)) >>),
       \* a valid release followed by one without remoteChecksums
       TopCfg(<< Entry(r1, ReleaseCfg(SHA256SUMS, <<disk>>)),
                 Entry(r2, Map(<< Entry(kArtifacts, List(<<Str(kernel)>>)) >>)) >>),
       \* a manifest file name that names no hash algorithm
       TopCfg(<< Entry(r1, ReleaseCfg(SUMS, <<disk, kernel>>)) >>),
       \* no 'distros' key
       Map(<< Entry(deb, Map(<<>>)) >>),
       \* no file at the path
       None >>

\* configurations that iter_release_contexts rejects after a valid entry
InvalidConfigFiles ==
    << \* a valid release followed by one without remoteChecksums
       ConfigFiles[3],
       \* a valid distro followed by one without baseURL
       Map(<< Entry(kDistros, Map(<<
                 Entry(deb, DistroCfg(<< Entry(r1, ReleaseCfg(SHA256SUMS, <<disk>>)) >>)),
                 Entry(alp, Map(<< Entry(kReleases, Map(<<
                                      Entry(r1, ReleaseCfg(SHA256SUMS, <<disk>>)) >>)) >>)) >>)) >>),
       \* a valid distro followed by one without any release
       Map(<< Entry(kDistros, Map(<<
                 Entry(deb, DistroCfg(<< Entry(r1, ReleaseCfg(SHA256SUMS, <<disk>>)) >>)),
                 Entry(alp, DistroCfg(<<>>)) >>)) >>),
       \* a valid release followed by one with an empty list of artifacts
       TopCfg(<< Entry(r1, ReleaseCfg(SHA256SUMS, <<disk>>)),
                 Entry(r2, ReleaseCfg(SHA256SUMS, <<>>)) >>) >>

\* manifest file names that name two algorithms, one, or none
ChecksumFileNames ==
    << <<"m","d","5","-","S","H","A","1">>,
       <<"s","h","a","2","5","6",".","s","h","a","5","1","2">>,
       <<"S","H","A","3","8","4","s","h","a","2","5","6">>,
       <<"s","h","a","1","S","h","a","2","5","6">>,
       <<"M","D","5","S","U","M","S">>,
       <<"s","h","a","-","2","5","6">>,
       <<"s","h","a","1","2","8","m","d","4">> >>

\* the configuration files with those names: one release with one artifact
NamedConfigFiles ==
    [i \in 1..Len(ChecksumFileNames) |->
        TopCfg(<< Entry(r1, ReleaseCfg(ChecksumFileNames[i], <<disk>>)) >>)]

\* the file at --config
ConfigFileAt(id) ==
    IF id <= Len(ConfigFiles) THEN ConfigFiles[id]
    ELSE IF id <= Len(ConfigFiles) + Len(NamedConfigFiles)
    THEN NamedConfigFiles[id - Len(ConfigFiles)]
    ELSE InvalidConfigFiles[id - Len(ConfigFiles) - Len(NamedConfigFiles)]

DistroFilters == {<<>>, <<deb>>, <<nope>>, <<deb, nope>>}
ReleaseFilters == {<<>>, <<r2>>, <<zz>>}

(***************************************************************************)
(* load_config and iter_release_contexts.  Both return either              *)
(* [err |-> "ConfigError", ...] or a value with err = "".                  *)
(***************************************************************************)
ConfigError(what, who) == [err |-> "ConfigError", what |-> what, who |-> who]

load_config(file) ==
    IF file.t = "none" THEN ConfigError("not found", <<>>)
    ELSE IF file.t # "map" \/ ~HasKey(file, kDistros) THEN ConfigError("distros missing", <<>>)
    ELSE IF Get(file, kDistros, None).t # "map" THEN ConfigError("distros not a mapping", <<>>)
    ELSE [err |-> "", distros |-> Get(file, kDistros, None)]

InFilter(filter, name) == \E i \in 1..Len(filter) : filter[i] = name

\* lines 324-350: the releases of one distro, from the i-th on
RECURSIVE IterReleases(_, _, _, _, _, _)
\* mutant of IterReleases: a release that fails validation is left out
IterReleases_SkipInvalid(distro_name, base_url, releases, i, release_filter, contexts) ==
    IF i > Len(releases.v) THEN [err |-> "", contexts |-> contexts]
    ELSE LET release_name == releases.v[i].k
             release_cfg == releases.v[i].val
             release_url == Get(release_cfg, kReleaseURL, Str(<<>>))
             checksum_file == Get(release_cfg, kRemoteChecksums, None)
             artifacts == Get(release_cfg, kArtifacts, List(<<>>))
         IN  IF \/ release_filter # <<>> /\ ~InFilter(release_filter, release_name)
                \/ release_cfg.t # "map"
                \/ ~Truthy(checksum_file) \/ checksum_file.t # "str"
                \/ artifacts.t # "list" \/ ~Truthy(artifacts)
             THEN IterReleases(distro_name, base_url, releases, i + 1, release_filter, contexts)
             ELSE IterReleases(distro_name, base_url, releases, i + 1, release_filter,
                      Append(contexts,
                          [distro |-> distro_name,
                           release |-> release_name,
                           base_url |-> base_url,
                           release_url |-> IF release_url.t = "str" THEN release_url.v ELSE <<>>,
                           checksum_file |-> checksum_file.v,
                           artifacts |-> [j \in 1..Len(artifacts.v) |-> ToStr(artifacts.v[j])]]))

IterReleases(distro_name, base_url, releases, i, release_filter, contexts) ==
    IF i > Len(releases.v) THEN [err |-> "", contexts |-> contexts]
    ELSE LET release_name == releases.v[i].k
             release_cfg == releases.v[i].val
         IN  IF release_filter # <<>> /\ ~InFilter(release_filter, release_name)
             THEN IterReleases(distro_name, base_url, releases, i + 1, release_filter, contexts)
             ELSE IF release_cfg.t # "map"
             THEN ConfigError("release not a mapping", release_name)
             ELSE LET release_url == Get(release_cfg, kReleaseURL, Str(<<>>))
                      checksum_file == Get(release_cfg, kRemoteChecksums, None)
                      artifacts == Get(release_cfg, kArtifacts, List(<<>>))
                  IN  IF ~Truthy(checksum_file) \/ checksum_file.t # "str"
                      THEN ConfigError("remoteChecksums", release_name)
                      ELSE IF artifacts.t # "list" \/ ~Truthy(artifacts)
                      THEN ConfigError("artifacts", release_name)
                      ELSE IterReleases(distro_name, base_url, releases, i + 1, release_filter,
                               Append(contexts,
                                   [distro |-> distro_name,
                                    release |-> release_name,
                                    base_url |-> base_url,
                                    release_url |-> IF release_url.t = "str" THEN release_url.v ELSE <<>>,
                                    checksum_file |-> checksum_file.v,
                                    artifacts |-> [j \in 1..Len(artifacts.v) |-> ToStr(artifacts.v[j])]]))

\* lines 310-350: the distros named, from the i-th on
RECURSIVE IterDistros(_, _, _, _, _)
\* mutant of IterDistros: a requested distro that is not defined is passed over
IterDistros_SkipUnknown(distros, distro_names, i, release_filter, contexts) ==
    IF i > Len(distro_names) THEN [err |-> "", contexts |-> contexts]
    ELSE LET distro_name == distro_names[i]
         IN  IF ~HasKey(distros, distro_name)
             THEN IterDistros(distros, distro_names, i + 1, release_filter, contexts)
             ELSE LET distro_cfg == Get(distros, distro_name, None)
                      base_url == Get(distro_cfg, kBaseURL, None)
                      releases == Get(distro_cfg, kReleases, None)
                  IN  IF distro_cfg.t # "map" THEN ConfigError("distro not a mapping", distro_name)
                      ELSE IF ~Truthy(base_url) \/ base_url.t # "str"
                      THEN ConfigError("baseURL", distro_name)
                      ELSE IF releases.t # "map" \/ ~Truthy(releases)
                      THEN ConfigError("releases", distro_name)
                      ELSE LET got == IterReleases(distro_name, base_url.v, releases, 1,
                                                   release_filter, contexts)
                           IN  IF got.err # "" THEN got
                               ELSE IterDistros(distros, distro_names, i + 1,
                                                release_filter, got.contexts)

IterDistros(distros, distro_names, i, release_filter, contexts) ==
    IF i > Len(distro_names) THEN [err |-> "", contexts |-> contexts]
    ELSE LET distro_name == distro_names[i]
         IN  IF ~HasKey(distros, distro_name) THEN ConfigError("distro not defined", distro_name)
             ELSE LET distro_cfg == Get(distros, distro_name, None)
                  IN  IF distro_cfg.t # "map" THEN ConfigError("distro not a mapping", distro_name)
                      ELSE LET base_url == Get(distro_cfg, kBaseURL, None)
                               releases == Get(distro_cfg, kReleases, None)
                           IN  IF ~Truthy(base_url) \/ base_url.t # "str"
                               THEN ConfigError("baseURL", distro_name)
                               ELSE IF releases.t # "map" \/ ~Truthy(releases)
                               THEN ConfigError("releases", distro_name)
                               ELSE LET got == IterReleases(distro_name, base_url.v, releases, 1,
                                                            release_filter, contexts)
                                    IN  IF got.err # "" THEN got
                                        ELSE IterDistros(distros, distro_names, i + 1,
                                                         release_filter, got.contexts)

iter_release_contexts(distros, distro_filter, release_filter) ==
    LET distro_names == IF distro_filter # <<>> THEN distro_filter
                        ELSE [i \in 1..Len(distros.v) |-> distros.v[i].k]
    IN  IterDistros(distros, distro_names, 1, release_filter, <<>>)

(***************************************************************************)
(* The remote side: the manifest texts a checksum URL may serve.           *)
(***************************************************************************)
Line(parts, eol) == [parts |-> parts, eol |-> eol]

\* disk -> A1 (upper case, starred name), kernel -> b2
TextA ==
    << Line(<< <<"A","1">>, <<"*","d">> >>, "LF"),
       Line(<< <<"b","2">>, kernel >>, "LF") >>

\* a comment, a one-part line, disk listed twice: disk -> b2, kernel -> a1
TextB ==
    << Line(<< <<"#">>, <<"x">> >>, "LF"),
       Line(<< <<"a","1">>, disk >>, "LF"),
       Line(<< <<"x">> >>, "LF"),
       Line(<< <<"b","2">>, disk >>, "LF"),
       Line(<< <<"a","1">>, kernel >>, "LF") >>

\* no entry for kernel
TextC ==
    << Line(<< <<"a","1">>, disk >>, "LF") >>

\* as served by a host that ends lines with CRLF: disk -> a1, kernel -> b2
TextD ==
    << Line(<< <<"a","1">>, disk >>, "CRLF"),
       Line(<< <<"b","2">>, kernel >>, "CRLF") >>

Manifests == {TextA, TextB, TextC, TextD}

(***************************************************************************)
(* State.                                                                  *)
(***************************************************************************)
VARIABLES
    configId,       \* which of ConfigFiles is at --config
    args,           \* argparse's result: distro, release, retries
    pc,             \* where main is; "idle" before the first invocation
    run,            \* invocations started so far
    contexts,       \* main: contexts
    ctxIdx,         \* main: position of ctx in contexts
    updates,        \* main: updates
    checksum_text,  \* sync_release: checksum_text
    artIdx,         \* sync_release: position of artifact in ctx.artifacts
    attempt,        \* sync_release: attempt
    exc,            \* sync_release: the SyncError caught at line 270
    fs,             \* the images directory: per release dir, marker, marker temp, files
    exitCode,       \* the process's exit code
    stderr,         \* the "Error: ..." lines printed by this invocation
    fetches,        \* history: fetch_text calls per context of this invocation
    downloads,      \* history: download_file calls per context and artifact
    verified,       \* history: artifact positions verified by the current sync_release
    markerAtStart,  \* history: the marker when the current sync_release started
    results,        \* history: what each finished sync_release returned
    lastUpdated,    \* history: per dir, the text of the last 'updated' run, until a download touches the dir
    verifies,       \* history: calculate_digest calls per context and artifact
    call,           \* the function applied on its own, with its arguments; main otherwise
    ret             \* what that function returned or raised, once it has

vars == <<configId, args, pc, run, contexts, ctxIdx, updates, checksum_text, artIdx,
          attempt, exc, fs, exitCode, stderr, fetches, downloads, verified,
          markerAtStart, results, lastUpdated, verifies, call, ret>>

Dirs == {<<deb, r1>>, <<deb, r2>>}
Names == {disk, kernel}

\* ReleaseContext.release_dir
release_dir(c) == <<c.distro, c.release>>

ctx == contexts[ctxIdx]
dir == release_dir(ctx)
artifact == ctx.artifacts[artIdx]
checksums == parse_checksums(checksum_text)
algorithm == detect_hash_algorithm(ctx.checksum_file).algo

SyncError(kind, name, n, missing) ==
    [err |-> "SyncError", kind |-> kind, artifact |-> name, attempts |-> n, missing |-> missing]

\* no process has run yet: the images directory is empty
NotStarted ==
    /\ args = [distro |-> <<>>, release |-> <<>>, retries |-> 0]
    /\ pc = "idle"
    /\ run = 0
    /\ contexts = <<>>
    /\ ctxIdx = 0
    /\ updates = 0
    /\ checksum_text = <<>>
    /\ artIdx = 0
    /\ attempt = 0
    /\ exc = <<>>
    /\ fs = [d \in Dirs |-> [marker |-> <<>>, tmp_marker |-> <<>>,
                             files |-> [n \in Names |-> "absent"],
                             tmps |-> [n \in Names |-> 0]]]
    /\ exitCode = 0
    /\ stderr = <<>>
    /\ fetches = <<>>
    /\ downloads = <<>>
    /\ verified = {}
    /\ markerAtStart = <<>>
    /\ results = <<>>
    /\ lastUpdated = [d \in Dirs |-> <<>>]
    /\ verifies = <<>>

Init ==
    /\ configId \in 1..Len(ConfigFiles)
    /\ NotStarted
    /\ call = [fn |-> "main"]
    /\ ret = <<>>

(***************************************************************************)
(* main.                                                                   *)
(***************************************************************************)
\* mutant of Raise: the error is printed and main returns 0
Raise_ExitZero(e) ==
    /\ stderr' = Append(stderr, e)
    /\ exitCode' = 0
    /\ pc' = "exited"

\* main's except clause: print the error once, return 1
Raise(e) ==
    /\ stderr' = Append(stderr, e)
    /\ exitCode' = 1
    /\ pc' = "exited"

\* an exception that the except clause of line 418 does not name
Uncaught(kind) ==
    [err |-> "Traceback", kind |-> kind, artifact |-> <<>>, attempts |-> 0, missing |-> <<>>]

\* an exception leaves main: the interpreter prints the traceback and the
\* process exits with status 1
Crash(e) ==
    /\ stderr' = Append(stderr, e)
    /\ exitCode' = 1
    /\ pc' = "exited"

\* sync_release is entered for contexts[i]
Enter(i) ==
    /\ ctxIdx' = i
    /\ pc' = "fetch"
    /\ checksum_text' = <<>>
    /\ artIdx' = 0
    /\ attempt' = 0
    /\ exc' = <<>>
    /\ verified' = {}
    /\ markerAtStart' = fs'[release_dir(contexts'[i])].marker

\* sync_release returns to main's loop: the next context, or the end of main
Return(updated) ==
    /\ results' = Append(results, [r |-> IF updated THEN "updated" ELSE "skipped",
                                    text |-> checksum_text])
    /\ updates' = IF updated THEN updates + 1 ELSE updates
    /\ UNCHANGED <<contexts, stderr>>
    /\ IF ctxIdx < Len(contexts)
       THEN Enter(ctxIdx + 1) /\ UNCHANGED exitCode
       ELSE /\ pc' = "exited"
            /\ exitCode' = 0
            /\ UNCHANGED <<ctxIdx, checksum_text, artIdx, attempt, exc, verified, markerAtStart>>

\* the process is started with some arguments: parse_args, lines 391-394
Start ==
    /\ pc = "idle"
    /\ run < MaxRuns
    /\ run' = run + 1
    /\ args' \in [distro : DistroFilters, release : ReleaseFilters, retries : 0..MaxRetries]
    /\ verifies' = <<>>
    /\ contexts' = <<>>
    /\ ctxIdx' = 0
    /\ updates' = 0
    /\ checksum_text' = <<>>
    /\ artIdx' = 0
    /\ attempt' = 0
    /\ exc' = <<>>
    /\ stderr' = <<>>
    /\ fetches' = <<>>
    /\ downloads' = <<>>
    /\ verified' = {}
    /\ markerAtStart' = <<>>
    /\ results' = <<>>
    /\ IF args'.retries < 1
       THEN pc' = "exited" /\ exitCode' = 2
       ELSE pc' = "load" /\ exitCode' = 0
    /\ UNCHANGED <<call, ret, configId, fs, lastUpdated>>

\* between two invocations the configuration file is replaced by another
EditConfig ==
    /\ pc = "idle"
    /\ run >= 1
    /\ run < MaxRuns
    /\ \E id \in 1..Len(ConfigFiles) : id # configId /\ configId' = id
    /\ UNCHANGED <<call, ret, args, pc, run, contexts, ctxIdx, updates, checksum_text,
                   artIdx, attempt, exc, fs, exitCode, stderr, fetches, downloads, verified,
                   markerAtStart, results, lastUpdated, verifies>>

\* the process is gone: what it held in memory and what it printed are gone
\* with it; the images directory and the configuration file stay
Exit ==
    /\ pc = "exited"
    /\ pc' = "idle"
    /\ args' = [distro |-> <<>>, release |-> <<>>, retries |-> 0]
    /\ contexts' = <<>>
    /\ ctxIdx' = 0
    /\ updates' = 0
    /\ checksum_text' = <<>>
    /\ artIdx' = 0
    /\ attempt' = 0
    /\ exc' = <<>>
    /\ exitCode' = 0
    /\ stderr' = <<>>
    /\ fetches' = <<>>
    /\ downloads' = <<>>
    /\ verifies' = <<>>
    /\ verified' = {}
    /\ markerAtStart' = <<>>
    /\ results' = <<>>
    /\ UNCHANGED <<call, ret, configId, run, fs, lastUpdated>>

\* lines 402-408: the contexts are built; none, or a ConfigError, ends main
LoadContexts ==
    /\ pc = "load"
    /\ UNCHANGED <<call, ret, configId, args, run, updates, fs, results, lastUpdated>>
    /\ LET loaded == load_config(ConfigFileAt(configId))
           got == IF loaded.err # "" THEN loaded
                  ELSE iter_release_contexts(loaded.distros, args.distro, args.release)
       IN  IF got.err # ""
           THEN /\ Raise(got)
                /\ UNCHANGED <<contexts, ctxIdx, checksum_text, artIdx, attempt, exc,
                               fetches, downloads, verifies, verified, markerAtStart>>
           ELSE /\ contexts' = got.contexts
                /\ fetches' = [i \in 1..Len(got.contexts) |-> 0]
                /\ downloads' = [i \in 1..Len(got.contexts) |->
                                    [j \in 1..Len(got.contexts[i].artifacts) |-> 0]]
                /\ verifies' = [i \in 1..Len(got.contexts) |->
                                    [j \in 1..Len(got.contexts[i].artifacts) |-> 0]]
                /\ UNCHANGED stderr
                /\ IF got.contexts = <<>>
                   THEN /\ pc' = "exited"
                        /\ exitCode' = 0
                        /\ UNCHANGED <<ctxIdx, checksum_text, artIdx, attempt, exc,
                                       verified, markerAtStart>>
                   ELSE Enter(1) /\ UNCHANGED exitCode

(***************************************************************************)
(* sync_release, one action per step.                                      *)
(***************************************************************************)
\* line 239: fetch_text; HTTPError and URLError become a SyncError (line 175);
\* once urlopen has returned, an error of response.read() (a connection reset
\* is an OSError that is no URLError) or of decode() is caught by nothing
FetchManifest ==
    /\ pc = "fetch"
    /\ fetches' = [fetches EXCEPT ![ctxIdx] = @ + 1]
    /\ UNCHANGED <<call, ret, configId, args, run, contexts, ctxIdx, updates, artIdx, attempt, exc, fs,
                   downloads, verified, markerAtStart, results, lastUpdated, verifies>>
    /\ \/ /\ Raise(SyncError("fetch", <<>>, 0, <<>>))
          /\ UNCHANGED checksum_text
       \/ /\ Crash(Uncaught("read"))
          /\ UNCHANGED checksum_text
       \/ /\ \E text \in Manifests : checksum_text' = text
          /\ pc' = "parse"
          /\ UNCHANGED <<exitCode, stderr>>

\* line 243
MissingArtifacts(artifacts, sums) ==
    LET Missing(a) == ~InChecksums(sums, a)
    IN  SelectSeq(artifacts, Missing)

\* line 250: the marker exists and reads as the fetched text
MarkerUnchanged(marker, text) ==
    marker # <<>> /\ read_text(marker[1]) = text

\* mutant of ValidateManifest: an unchanged marker is looked for before the
\* missing entries are
ValidateManifest_AfterDetect ==
    /\ pc = "parse"
    /\ UNCHANGED <<call, ret, configId, args, run, contexts, ctxIdx, updates, checksum_text, artIdx,
                   attempt, exc, fs, fetches, downloads, verified, markerAtStart, results,
                   lastUpdated, verifies>>
    /\ LET detected == detect_hash_algorithm(ctx.checksum_file)
           missing_artifacts == MissingArtifacts(ctx.artifacts, checksums)
       IN  IF detected.err # ""
           THEN Raise(SyncError("algorithm", <<>>, 0, <<>>))
           ELSE IF missing_artifacts # <<>> /\ ~MarkerUnchanged(fs[dir].marker, checksum_text)
           THEN Raise(SyncError("missing", <<>>, 0, missing_artifacts))
           ELSE pc' = "detect" /\ UNCHANGED <<exitCode, stderr>>

\* lines 240-247: parse the manifest, detect the algorithm, require every artifact
ValidateManifest ==
    /\ pc = "parse"
    /\ UNCHANGED <<call, ret, configId, args, run, contexts, ctxIdx, updates, checksum_text, artIdx,
                   attempt, exc, fs, fetches, downloads, verified, markerAtStart, results,
                   lastUpdated, verifies>>
    /\ LET detected == detect_hash_algorithm(ctx.checksum_file)
           missing_artifacts == MissingArtifacts(ctx.artifacts, checksums)
       IN  IF detected.err # ""
           THEN Raise(SyncError("algorithm", <<>>, 0, <<>>))
           ELSE IF missing_artifacts # <<>>
           THEN Raise(SyncError("missing", <<>>, 0, missing_artifacts))
           ELSE pc' = "detect" /\ UNCHANGED <<exitCode, stderr>>

\* lines 254 and 258: the loops `for artifact in ctx.artifacts` and
\* `for attempt in range(1, attempts + 1)` are entered for the i-th artifact;
\* an empty range leaves nothing to do for any artifact
LoopArtifacts(i) ==
    IF i <= Len(ctx.artifacts) /\ 1 <= args.retries
    THEN artIdx' = i /\ attempt' = 1 /\ pc' = "download"
    ELSE pc' = "commit" /\ UNCHANGED <<artIdx, attempt>>

\* lines 249-252: change detection
DetectChange ==
    /\ pc = "detect"
    /\ UNCHANGED <<call, ret, configId, args, run, fs, fetches, downloads, lastUpdated, verifies>>
    /\ IF MarkerUnchanged(fs[dir].marker, checksum_text)
       THEN Return(FALSE)
       ELSE /\ LoopArtifacts(1)
            /\ UNCHANGED <<contexts, ctxIdx, updates, checksum_text, exc, exitCode, stderr,
                           verified, markerAtStart, results>>

\* lines 180-182: download_file is called; mkstemp makes the temp file
DownloadStart ==
    /\ pc = "download"
    /\ fs' = [fs EXCEPT ![dir].tmps[artifact] = @ + 1]
    /\ downloads' = [downloads EXCEPT ![ctxIdx][artIdx] = @ + 1]
    /\ lastUpdated' = [lastUpdated EXCEPT ![dir] = <<>>]
    /\ pc' = "copy"
    /\ UNCHANGED <<call, ret, configId, args, run, contexts, ctxIdx, updates, checksum_text, artIdx,
                   attempt, exc, exitCode, stderr, fetches, verified, markerAtStart, results,
                   verifies>>

\* lines 184-186: the body is copied and the temp file renamed over the destination
DownloadOk ==
    /\ pc = "copy"
    /\ \E content \in Contents :
          fs' = [fs EXCEPT ![dir].tmps[artifact] = @ - 1, ![dir].files[artifact] = content]
    /\ pc' = "digest"
    /\ UNCHANGED <<call, ret, configId, args, run, contexts, ctxIdx, updates, checksum_text, artIdx,
                   attempt, exc, exitCode, stderr, fetches, downloads, verified,
                   markerAtStart, results, lastUpdated, verifies>>

\* lines 187-189: the transfer fails; the temp file is unlinked, SyncError raised
DownloadFail ==
    /\ pc = "copy"
    /\ fs' = [fs EXCEPT ![dir].tmps[artifact] = @ - 1]
    /\ exc' = <<SyncError("download", artifact, attempt, <<>>)>>
    /\ pc' = "except"
    /\ UNCHANGED <<call, ret, configId, args, run, contexts, ctxIdx, updates, checksum_text, artIdx,
                   attempt, exitCode, stderr, fetches, downloads, verified, markerAtStart,
                   results, lastUpdated, verifies>>

\* lines 184-189: the body breaks off inside a chunk; copyfileobj raises
\* http.client.IncompleteRead, which the except clause of line 187 does not
\* name: the temp file stays and the exception leaves main
DownloadCrash ==
    /\ pc = "copy"
    /\ Crash(Uncaught("copy"))
    /\ UNCHANGED <<call, ret, configId, args, run, contexts, ctxIdx, updates, checksum_text, artIdx,
                   attempt, exc, fs, fetches, downloads, verified, markerAtStart, results,
                   lastUpdated, verifies>>

\* history: what `verified` records, the digests being equal up to letter case
SameDigest(a, b) == Lower(a) = Lower(b)

\* line 262, negated: the digests agree
DigestMatches(actual_digest, expected_digest) ==
    Lower(actual_digest) = expected_digest

\* mutant of VerifyDigest: the marker is written as soon as an artifact verifies
VerifyDigest_CommitEach ==
    /\ pc = "digest"
    /\ UNCHANGED <<call, ret, configId, args, run, contexts, ctxIdx, updates, checksum_text,
                   exitCode, stderr, fetches, downloads, markerAtStart, results, lastUpdated>>
    /\ verifies' = [verifies EXCEPT ![ctxIdx][artIdx] = @ + 1]
    /\ LET expected_digest == Lower(ChecksumOf(checksums, artifact))
           actual_digest == calculate_digest(fs[dir].files[artifact], algorithm)
       IN  /\ verified' = IF SameDigest(actual_digest, ChecksumOf(checksums, artifact))
                          THEN verified \cup {artIdx} ELSE verified
           /\ IF DigestMatches(actual_digest, expected_digest)
              THEN /\ exc' = <<>>
                   /\ fs' = [fs EXCEPT ![dir].marker = <<write_text(checksum_text)>>]
                   /\ LoopArtifacts(artIdx + 1)
              ELSE /\ exc' = <<SyncError("mismatch", artifact, attempt, <<>>)>>
                   /\ pc' = "except"
                   /\ UNCHANGED <<artIdx, attempt, fs>>

\* lines 261-269: the digest of the destination is compared with the manifest's
VerifyDigest ==
    /\ pc = "digest"
    /\ UNCHANGED <<call, ret, configId, args, run, contexts, ctxIdx, updates, checksum_text, fs,
                   exitCode, stderr, fetches, downloads, markerAtStart, results, lastUpdated>>
    /\ verifies' = [verifies EXCEPT ![ctxIdx][artIdx] = @ + 1]
    /\ LET expected_digest == Lower(ChecksumOf(checksums, artifact))
           actual_digest == calculate_digest(fs[dir].files[artifact], algorithm)
       IN  /\ verified' = IF SameDigest(actual_digest, ChecksumOf(checksums, artifact))
                          THEN verified \cup {artIdx} ELSE verified
           /\ IF DigestMatches(actual_digest, expected_digest)
              THEN exc' = <<>> /\ LoopArtifacts(artIdx + 1)
              ELSE /\ exc' = <<SyncError("mismatch", artifact, attempt, <<>>)>>
                   /\ pc' = "except"
                   /\ UNCHANGED <<artIdx, attempt>>

\* mutant of BudgetExhausted: the last failed attempt does not raise
BudgetExhausted_OffByOne(n, attempts) == n > attempts

\* mutant of BudgetExhausted: the budget is taken to be one attempt smaller
BudgetExhausted_Early(n, attempts) == n >= attempts - 1

\* line 271
BudgetExhausted(n, attempts) == n >= attempts

\* lines 270-278: the except clause of an attempt
HandleFailure ==
    /\ pc = "except"
    /\ UNCHANGED <<call, ret, configId, args, run, contexts, ctxIdx, updates, checksum_text,
                   fetches, downloads, verified, markerAtStart, results, lastUpdated,
                   verifies>>
    /\ IF BudgetExhausted(attempt, args.retries)
       THEN /\ Raise(SyncError("exhausted", artifact, args.retries, <<>>))
            /\ UNCHANGED <<artIdx, attempt, exc, fs>>
       ELSE /\ fs' = [fs EXCEPT ![dir].files[artifact] = "absent"]
            /\ exc' = <<>>
            /\ UNCHANGED <<exitCode, stderr>>
            /\ IF attempt + 1 <= args.retries
               THEN attempt' = attempt + 1 /\ pc' = "download" /\ UNCHANGED artIdx
               ELSE LoopArtifacts(artIdx + 1)

\* lines 280-282: the manifest text is written beside the marker
WriteMarkerTemp ==
    /\ pc = "commit"
    /\ fs' = [fs EXCEPT ![dir].tmp_marker = <<write_text(checksum_text)>>]
    /\ pc' = "rename"
    /\ UNCHANGED <<call, ret, configId, args, run, contexts, ctxIdx, updates, checksum_text, artIdx,
                   attempt, exc, exitCode, stderr, fetches, downloads, verified,
                   markerAtStart, results, lastUpdated, verifies>>

\* lines 283-285: the temp file is renamed over the marker; sync_release returns True
RenameMarker ==
    /\ pc = "rename"
    /\ fs' = [fs EXCEPT ![dir].marker = fs[dir].tmp_marker, ![dir].tmp_marker = <<>>]
    /\ lastUpdated' = [lastUpdated EXCEPT ![dir] = <<checksum_text>>]
    /\ UNCHANGED <<call, ret, configId, args, run, fetches, downloads, verifies>>
    /\ Return(TRUE)

\* the process is terminated from outside while it runs
Terminate ==
    /\ pc \notin {"idle", "exited"}
    /\ pc' = "exited"
    /\ exitCode' = -9
    /\ UNCHANGED <<call, ret, configId, args, run, contexts, ctxIdx, updates, checksum_text, artIdx,
                   attempt, exc, fs, stderr, fetches, downloads, verified, markerAtStart,
                   results, lastUpdated, verifies>>

\* the steps of an invocation
Run ==
    \/ Start
    \/ Exit
    \/ LoadContexts
    \/ FetchManifest
    \/ ValidateManifest
    \/ DetectChange
    \/ DownloadStart
    \/ DownloadOk
    \/ DownloadFail
    \/ DownloadCrash
    \/ VerifyDigest
    \/ HandleFailure
    \/ WriteMarkerTemp
    \/ RenameMarker

\* invocations, the configuration possibly edited between them
Next == Run \/ EditConfig

Spec == Init /\ [][Next]_vars

\* the steps of sync_release
SyncSteps ==
    \/ FetchManifest
    \/ ValidateManifest
    \/ DetectChange
    \/ DownloadStart
    \/ DownloadOk
    \/ DownloadFail
    \/ DownloadCrash
    \/ VerifyDigest
    \/ HandleFailure
    \/ WriteMarkerTemp
    \/ RenameMarker

\* every network call returns and the interpreter goes on to the next
\* statement: a step of sync_release that can be taken is taken
SpecLive == Init /\ [][Next]_vars /\ WF_vars(SyncSteps)

\* invocations on one configuration, each possibly terminated from outside
NextTerm == Run \/ Terminate

SpecTerm == Init /\ [][NextTerm]_vars

\* invocations on a configuration whose manifest file name is one of
\* ChecksumFileNames
InitNames ==
    /\ configId \in (Len(ConfigFiles) + 1)..(Len(ConfigFiles) + Len(NamedConfigFiles))
    /\ NotStarted
    /\ call = [fn |-> "main"]
    /\ ret = <<>>

SpecNames == InitNames /\ [][Run]_vars

\* invocations on one of InvalidConfigFiles
InitInvalid ==
    /\ configId \in (Len(ConfigFiles) + Len(NamedConfigFiles) + 1)..
                     (Len(ConfigFiles) + Len(NamedConfigFiles) + Len(InvalidConfigFiles))
    /\ NotStarted
    /\ call = [fn |-> "main"]
    /\ ret = <<>>

SpecInvalid == InitInvalid /\ [][Run]_vars

(***************************************************************************)
(* Functions applied on their own.  `call` holds the function and its      *)
(* arguments, `ret` what it returned once it has; main is not started.     *)
(***************************************************************************)
mainVars == <<configId, args, pc, run, contexts, ctxIdx, updates, checksum_text, artIdx,
              attempt, exc, fs, exitCode, stderr, fetches, downloads, verified,
              markerAtStart, results, lastUpdated, verifies>>

\* s.rstrip(ch)
RECURSIVE RStrip(_, _)
RStrip(s, ch) ==
    IF s # <<>> /\ s[Len(s)] = ch THEN RStrip(SubSeq(s, 1, Len(s) - 1), ch) ELSE s

\* s.strip(ch)
Strip(s, ch) == RStrip(LStrip(s, ch), ch)

\* sep.join(parts)
RECURSIVE Join(_, _)
Join(parts, sep) ==
    IF parts = <<>> THEN <<>>
    ELSE IF Len(parts) = 1 THEN parts[1]
    ELSE parts[1] \o sep \o Join(Tail(parts), sep)

NonEmpty(part) == part # <<>>

\* ReleaseContext.checksum_url: the empty parts are left out
checksum_url(self) ==
    LET parts == << RStrip(self.base_url, "/"),
                    Strip(self.release, "/"),
                    Strip(self.release_url, "/"),
                    self.checksum_file >>
    IN  Join(SelectSeq(parts, NonEmpty), <<"/">>)

\* ReleaseContext.artifact_url: every part is joined
artifact_url(self, name) ==
    Join(<< RStrip(self.base_url, "/"),
            Strip(self.release, "/"),
            Strip(self.release_url, "/"),
            name >>, <<"/">>)

\* the fields of the contexts tried: what iter_release_contexts can return
\* (releaseURL is optional and defaults to the empty string)
BaseURLs == { <<"h",":","/","/","x">>, BaseURL, <<"h",":","/","/","x","/","/">> }
ReleaseNames == {r1, r2, <<"/","r","1","/">>}
ReleaseURLs == { <<>>, <<"c">>, <<"/","c">>, <<"c","/">>, <<"/","c","/">> }
ChecksumFiles == {SHA256SUMS, SUMS, <<"m","d","5">>}
ArtifactLists == {<<disk>>, <<kernel>>, <<disk, kernel>>}

UrlContexts ==
    [distro : {deb}, release : ReleaseNames, base_url : BaseURLs,
     release_url : ReleaseURLs, checksum_file : ChecksumFiles, artifacts : ArtifactLists]

InitUrl ==
    /\ configId = 1
    /\ NotStarted
    /\ call \in [fn : {"urls"}, ctx : UrlContexts]
    /\ ret = <<>>

\* lines 239 and 260: the URLs that sync_release asks for
BuildUrls ==
    /\ call.fn = "urls"
    /\ ret = <<>>
    /\ ret' = << [checksum_url |-> checksum_url(call.ctx),
                  artifact_urls |-> [j \in 1..Len(call.ctx.artifacts) |->
                                        artifact_url(call.ctx, call.ctx.artifacts[j])]] >>
    /\ UNCHANGED <<call, mainVars>>

NextUrl == BuildUrls

SpecUrl == InitUrl /\ [][NextUrl]_vars

(***************************************************************************)
(* The configuration parser.  A text is the sequence of its lines (what    *)
(* splitlines() returns), a line a sequence of characters.                 *)
(***************************************************************************)
SQ == "'"
DQ == "\""

\* s.strip(), s.rstrip(): the whitespace of the texts tried is the space
strip(s) == Strip(s, " ")
rstrip(s) == RStrip(s, " ")

\* lines 35-42 of strip_comments, from the i-th character on
RECURSIVE strip_comments_from(_, _, _, _)
strip_comments_from(line, i, in_single, in_double) ==
    IF i > Len(line) THEN <<>>
    ELSE LET char == line[i]
         IN  IF char = SQ /\ ~in_double
             THEN <<char>> \o strip_comments_from(line, i + 1, ~in_single, in_double)
             ELSE IF char = DQ /\ ~in_single
             THEN <<char>> \o strip_comments_from(line, i + 1, in_single, ~in_double)
             ELSE IF char = "#" /\ ~in_single /\ ~in_double
             THEN <<>>
             ELSE <<char>> \o strip_comments_from(line, i + 1, in_single, in_double)

strip_comments(line) == strip_comments_from(line, 1, FALSE, FALSE)

LiteralTrue == <<"t","r","u","e">>
LiteralFalse == <<"f","a","l","s","e">>

\* line 50: value.startswith(("'", '"')) and value.endswith(("'", '"'))
Quoted(value) == value[1] \in {SQ, DQ} /\ value[Len(value)] \in {SQ, DQ}

parse_scalar(raw) ==
    LET value == strip(raw)
        lowered == Lower(value)
    IN  IF value = <<>> THEN Str(<<>>)
        ELSE IF Quoted(value) THEN Str(SubSeq(value, 2, Len(value) - 1))
        ELSE IF lowered \in {LiteralTrue, LiteralFalse} THEN Bool(lowered = LiteralTrue)
        ELSE Str(value)

\* s.count(ch)
Count(s, ch) == Cardinality({i \in 1..Len(s) : s[i] = ch})

\* lines 62-69 of tokenize_yaml, from line lineno on
RECURSIVE tokenize_from(_, _)
tokenize_from(text, lineno) ==
    IF lineno > Len(text) THEN [err |-> "", tokens |-> <<>>]
    ELSE LET line == rstrip(strip_comments(text[lineno]))
             indent == Len(line) - Len(LStrip(line, " "))
             rest == tokenize_from(text, lineno + 1)
         IN  IF strip(line) = <<>> THEN rest
             ELSE IF indent # 0 /\ Count(SubSeq(line, 1, indent), " ") # indent
             THEN ConfigError("Invalid indentation", lineno)
             ELSE IF rest.err # "" THEN rest
             ELSE [err |-> "",
                   tokens |-> <<[indent |-> indent, content |-> strip(line), lineno |-> lineno]>>
                              \o rest.tokens]

tokenize_yaml(text) == tokenize_from(text, 1)

\* content.startswith("- ")
StartsWithItem(content) == Len(content) >= 2 /\ content[1] = "-" /\ content[2] = " "

\* content.partition(":")
Partition(content) ==
    LET at == CHOOSE i \in 1..Len(content) :
                  content[i] = ":" /\ \A j \in 1..(i - 1) : content[j] # ":"
    IN  [key |-> SubSeq(content, 1, at - 1), remainder |-> SubSeq(content, at + 1, Len(content))]

\* result[key] = value on a dict kept as a sequence of entries
DictSet(result, key, value) ==
    IF \E i \in 1..Len(result) : result[i].k = key
    THEN [i \in 1..Len(result) |-> IF result[i].k = key THEN Entry(key, value) ELSE result[i]]
    ELSE Append(result, Entry(key, value))

\* mutant of TooDeep: a more indented token is taken as an entry of the block
TooDeep_Never(current_indent, indent) == FALSE

\* line 79
TooDeep(current_indent, indent) == current_indent > indent

\* parse_block and parse_list return [err, value, index] or a ConfigError;
\* index counts from 1
RECURSIVE parse_block_loop(_, _, _, _), parse_list_loop(_, _, _, _)

\* lines 75-105: the while loop of parse_block
parse_block_loop(tokens, index, indent, result) ==
    IF index > Len(tokens) THEN [err |-> "", value |-> Map(result), index |-> index]
    ELSE LET current_indent == tokens[index].indent
             content == tokens[index].content
             lineno == tokens[index].lineno
         IN  IF current_indent < indent
             THEN [err |-> "", value |-> Map(result), index |-> index]
             ELSE IF TooDeep(current_indent, indent)
             THEN ConfigError("Unexpected indentation", lineno)
             ELSE IF StartsWithItem(content)
             THEN ConfigError("Unexpected list item", lineno)
             ELSE IF ~Contains(content, <<":">>)
             THEN ConfigError("Expected ':'", lineno)
             ELSE LET key == strip(Partition(content).key)
                      remainder == strip(Partition(content).remainder)
                  IN  IF remainder # <<>>
                      THEN parse_block_loop(tokens, index + 1, indent,
                               DictSet(result, key, parse_scalar(remainder)))
                      ELSE IF index + 1 > Len(tokens) \/ tokens[index + 1].indent <= indent
                      THEN parse_block_loop(tokens, index + 1, indent,
                               DictSet(result, key, Map(<<>>)))
                      ELSE LET next_indent == tokens[index + 1].indent
                               nested == IF StartsWithItem(tokens[index + 1].content)
                                         THEN parse_list_loop(tokens, index + 1, next_indent, <<>>)
                                         ELSE parse_block_loop(tokens, index + 1, next_indent, <<>>)
                           IN  IF nested.err # "" THEN nested
                               ELSE parse_block_loop(tokens, nested.index, indent,
                                        DictSet(result, key, nested.value))

\* lines 110-132: the while loop of parse_list
parse_list_loop(tokens, index, indent, items) ==
    IF index > Len(tokens) THEN [err |-> "", value |-> List(items), index |-> index]
    ELSE LET current_indent == tokens[index].indent
             content == tokens[index].content
             lineno == tokens[index].lineno
         IN  IF current_indent < indent
             THEN [err |-> "", value |-> List(items), index |-> index]
             ELSE IF current_indent > indent
             THEN ConfigError("Unexpected indentation", lineno)
             ELSE IF ~StartsWithItem(content)
             THEN [err |-> "", value |-> List(items), index |-> index]
             ELSE LET item_content == strip(SubSeq(content, 3, Len(content)))
                      next == index + 1
                  IN  IF item_content # <<>>
                      THEN parse_list_loop(tokens, next, indent,
                               Append(items, parse_scalar(item_content)))
                      ELSE IF next > Len(tokens) \/ tokens[next].indent <= indent
                      THEN parse_list_loop(tokens, next, indent, Append(items, Map(<<>>)))
                      ELSE LET next_indent == tokens[next].indent
                               nested == IF StartsWithItem(tokens[next].content)
                                         THEN parse_list_loop(tokens, next, next_indent, <<>>)
                                         ELSE parse_block_loop(tokens, next, next_indent, <<>>)
                           IN  IF nested.err # "" THEN nested
                               ELSE parse_list_loop(tokens, nested.index, indent,
                                        Append(items, nested.value))

parse_block(tokens, index, indent) == parse_block_loop(tokens, index, indent, <<>>)

parse_list(tokens, index, indent) == parse_list_loop(tokens, index, indent, <<>>)

\* lines 138-143 of load_simple_yaml
parse_tokens(tokens) ==
    IF tokens = <<>> THEN [err |-> "", value |-> Map(<<>>)]
    ELSE LET parsed == parse_block(tokens, 1, tokens[1].indent)
         IN  IF parsed.err # "" THEN parsed
             ELSE IF parsed.index # Len(tokens) + 1
             THEN ConfigError("Unexpected trailing content", 0)
             ELSE [err |-> "", value |-> parsed.value]

\* load_simple_yaml on the text of the file
load_simple_yaml(text) ==
    LET tokenized == tokenize_yaml(text)
    IN  IF tokenized.err # "" THEN tokenized ELSE parse_tokens(tokenized.tokens)

\* n spaces
Indent(n) == [i \in 1..n |-> " "]

\* the lines of the configuration texts tried: a mapping entry without and with
\* a value, a sequence item, a line holding only the item marker, each at three
\* indents; and a comment line
YamlContents == { <<"a",":">>, <<"b",":"," ","x">>, <<"-"," ","y">>, <<"-">> }
YamlIndents == {0, 2, 4}
YamlLines ==
    {Indent(n) \o content : n \in YamlIndents, content \in YamlContents}
        \cup { <<"#"," ","c">> }

\* the longest text tried, in lines
MaxLines == 3

YamlTexts == UNION {[1..n -> YamlLines] : n \in 1..MaxLines}

\* the values written out and read back: scalars, sequences of scalars,
\* mappings of scalars, sequences of those, under one or two keys
RoundTripScalars == << Str(<<"x">>), Bool(TRUE) >>
RoundTripLists ==
    [i \in 1..2 |-> List(<<RoundTripScalars[i]>>)]
        \o [i \in 1..4 |-> List(<<RoundTripScalars[((i - 1) \div 2) + 1],
                                   RoundTripScalars[((i - 1) % 2) + 1]>>)]
RoundTripMaps ==
    [i \in 1..2 |-> Map(<<Entry(<<"b">>, RoundTripScalars[i])>>)] \o << Map(<<>>) >>
RoundTripNested ==
    RoundTripScalars \o RoundTripLists \o RoundTripMaps
        \o [i \in 1..2 |-> List(<<RoundTripMaps[i]>>)]
        \o [i \in 1..Len(RoundTripLists) |-> List(<<RoundTripLists[i]>>)]
RoundTripValues ==
    [i \in 1..Len(RoundTripNested) |-> Map(<<Entry(<<"a">>, RoundTripNested[i])>>)]
        \o [i \in 1..(2 * Len(RoundTripNested)) |->
               Map(<<Entry(<<"a">>, RoundTripNested[((i - 1) \div 2) + 1]),
                     Entry(<<"c">>, RoundTripScalars[((i - 1) % 2) + 1])>>)]

\* the text of a scalar in a configuration file
ScalarText(x) ==
    IF x.t = "bool" THEN (IF x.v THEN LiteralTrue ELSE LiteralFalse) ELSE x.v

\* a value written in the configuration format: 'key: value' for a scalar
\* entry, 'key:' and a block two spaces deeper for a nested value, '- value'
\* for a scalar item, '-' and a block two spaces deeper for a nested item
RECURSIVE SerialiseValue(_, _), SerialiseEntries(_, _, _), SerialiseItems(_, _, _)
SerialiseEntries(entries, i, indent) ==
    IF i > Len(entries) THEN <<>>
    ELSE LET e == entries[i]
             here == IF e.val.t \in {"str", "bool"}
                     THEN << Indent(indent) \o e.k \o <<":", " ">> \o ScalarText(e.val) >>
                     ELSE << Indent(indent) \o e.k \o <<":">> >>
                              \o SerialiseValue(e.val, indent + 2)
         IN  here \o SerialiseEntries(entries, i + 1, indent)

SerialiseItems(items, i, indent) ==
    IF i > Len(items) THEN <<>>
    ELSE LET item == items[i]
             here == IF item.t \in {"str", "bool"}
                     THEN << Indent(indent) \o <<"-", " ">> \o ScalarText(item) >>
                     ELSE << Indent(indent) \o <<"-">> >> \o SerialiseValue(item, indent + 2)
         IN  here \o SerialiseItems(items, i + 1, indent)

SerialiseValue(value, indent) ==
    IF value.t = "map" THEN SerialiseEntries(value.v, 1, indent)
    ELSE SerialiseItems(value.v, 1, indent)

InitYaml ==
    /\ configId = 1
    /\ NotStarted
    /\ \/ call \in [fn : {"load_simple_yaml"}, text : YamlTexts, of : {<<>>}]
       \/ \E i \in 1..Len(RoundTripValues) :
              call = [fn |-> "serialise", text |-> <<>>, of |-> <<RoundTripValues[i]>>]
    /\ ret = <<>>

\* a value is written out as the text of a configuration file
Serialise ==
    /\ call.fn = "serialise"
    /\ call' = [fn |-> "load_simple_yaml", text |-> SerialiseValue(call.of[1], 0),
                of |-> call.of]
    /\ UNCHANGED <<ret, mainVars>>

\* lines 136-143: load_simple_yaml on the text; the tokens are kept beside
\* what it returned
LoadYaml ==
    /\ call.fn = "load_simple_yaml"
    /\ ret = <<>>
    /\ ret' = << [tokens |-> tokenize_yaml(call.text),
                  result |-> load_simple_yaml(call.text)] >>
    /\ UNCHANGED <<call, mainVars>>

NextYaml == Serialise \/ LoadYaml

SpecYaml == InitYaml /\ [][NextYaml]_vars

\* the texts given to parse_scalar: up to MaxPieces of these pieces in a row
ScalarPieces ==
    { <<SQ>>, <<DQ>>, <<" ">>, <<"a">>, LiteralTrue, <<"T","r","U","e">>,
      <<"F","A","L","S","E">> }

MaxPieces == 3

RECURSIVE Flatten(_)
Flatten(pieces) ==
    IF pieces = <<>> THEN <<>> ELSE Head(pieces) \o Flatten(Tail(pieces))

ScalarTexts ==
    {Flatten(p) : p \in UNION {[1..n -> ScalarPieces] : n \in 0..MaxPieces}}

InitScalar ==
    /\ configId = 1
    /\ NotStarted
    /\ call \in [fn : {"parse_scalar"}, value : ScalarTexts]
    /\ ret = <<>>

\* lines 103 and 121: parse_scalar on the text of a value
ApplyScalar ==
    /\ call.fn = "parse_scalar"
    /\ ret = <<>>
    /\ ret' = <<parse_scalar(call.value)>>
    /\ UNCHANGED <<call, mainVars>>

NextScalar == ApplyScalar

SpecScalar == InitScalar /\ [][NextScalar]_vars

(***************************************************************************)
(* Properties.                                                             *)
(***************************************************************************)
InAttempt == pc \in {"download", "copy", "digest", "except"}
PastDetection == pc \in {"download", "copy", "digest", "except", "commit", "rename"}

\* main ended with the SyncError that sync_release raised for contexts[ctxIdx]
SyncFailed ==
    /\ pc = "exited"
    /\ ctxIdx >= 1
    /\ stderr # <<>>
    /\ stderr[1].err = "SyncError"

Failed(kind) == SyncFailed /\ stderr[1].kind = kind

NoDownloads(i) == \A j \in 1..Len(downloads[i]) : downloads[i][j] = 0

AllArtifacts == 1..Len(ctx.artifacts)

\* the configured artifacts the manifest text has no entry for
NotListed(c, text) ==
    LET sums == parse_checksums(text)
        Absent(a) == \A i \in 1..Len(sums) : sums[i].name # a
    IN  SelectSeq(c.artifacts, Absent)

\* C1: with attempts >= 1, the marker of a release dir changes only in a step of
\* the sync_release of that dir taken when every configured artifact has been
\* downloaded and found to have the manifest's digest (up to case) in this run,
\* and what is written is the fetched manifest text.
C1_MarkerOnlyAfterAllVerified ==
    [][\A d \in Dirs :
          (args.retries >= 1 /\ fs'[d].marker # fs[d].marker) =>
              /\ d = dir
              /\ verified = AllArtifacts
              /\ \A j \in AllArtifacts : downloads[ctxIdx][j] >= 1
              /\ fs'[d].marker = <<checksum_text>>]_vars

C1_Witness ==
    /\ pc = "exited"
    /\ exitCode = 0
    /\ Len(results) = 1
    /\ results[1].r = "updated"
    /\ Len(contexts[1].artifacts) = 2
    /\ verified = {1, 2}
    /\ fs[release_dir(contexts[1])].marker = <<results[1].text>>

\* C2: when sync_release ends with a SyncError, the marker of its release dir is
\* what it was when that sync_release started (the same text, or still absent).
C2_MarkerUnchangedOnSyncError ==
    SyncFailed => fs[dir].marker = markerAtStart

C2_Witness ==
    /\ Failed("exhausted")
    /\ Len(ctx.artifacts) = 2
    /\ verified = {1}
    /\ markerAtStart # <<>>
    /\ fs[dir].marker = markerAtStart

\* C3: whenever the marker holds exactly the fetched manifest text (in particular
\* after a run that returned 'updated' for that text, nothing having touched the
\* dir since), sync_release does not get past change detection: no download is
\* started; and a release reported 'skipped' had no download.
C3_Idempotent ==
    /\ PastDetection => fs[dir].marker # <<checksum_text>>
    /\ (pc = "download" /\ artIdx = 1 /\ attempt = 1) => lastUpdated[dir] # <<checksum_text>>
    /\ \A i \in 1..Len(results) : results[i].r = "skipped" => NoDownloads(i)

\* C4 as claimed: once the manifest is fetched and parsed, a configured artifact
\* that it does not list makes sync_release fail with the SyncError that lists
\* all the missing names, no download having been made.
C4_MissingAlwaysReported ==
    (ctxIdx >= 1 /\ checksum_text # <<>> /\ pc # "parse" /\ NotListed(ctx, checksum_text) # <<>>)
        => /\ pc = "exited"
           /\ exitCode = 1
           /\ stderr = <<SyncError("missing", <<>>, 0, NotListed(ctx, checksum_text))>>
           /\ NoDownloads(ctxIdx)

\* C4 amended: the same, provided the manifest file name names a hash algorithm;
\* when it names none, sync_release fails with the SyncError of
\* detect_hash_algorithm instead, also before any download.  In both cases the
\* marker matching the manifest changes nothing.
C4_MissingReportedAfterAlgorithm ==
    (ctxIdx >= 1 /\ checksum_text # <<>> /\ pc # "parse" /\ NotListed(ctx, checksum_text) # <<>>)
        => /\ pc = "exited"
           /\ exitCode = 1
           /\ stderr = IF detect_hash_algorithm(ctx.checksum_file).err = ""
                       THEN <<SyncError("missing", <<>>, 0, NotListed(ctx, checksum_text))>>
                       ELSE <<SyncError("algorithm", <<>>, 0, <<>>)>>
           /\ NoDownloads(ctxIdx)

\* the missing-entry error is raised although the marker reads as the manifest
C4_Witness ==
    /\ Failed("missing")
    /\ stderr[1].missing = <<kernel>>
    /\ MarkerUnchanged(fs[dir].marker, checksum_text)
    /\ NoDownloads(ctxIdx)

\* C5: an artifact whose digest never matches is downloaded and verified exactly
\* `retries` times: attempts are numbered 1..retries and each makes one download;
\* after `retries` verifications without a match sync_release has failed, and the
\* SyncError names the artifact and the attempt count, the marker being unchanged.
C5_ExactlyKAttempts ==
    /\ InAttempt =>
          /\ attempt \in 1..args.retries
          /\ downloads[ctxIdx][artIdx] = IF pc = "download" THEN attempt - 1 ELSE attempt
          /\ verifies[ctxIdx][artIdx] <= downloads[ctxIdx][artIdx]
    /\ Failed("exhausted") =>
          /\ downloads[ctxIdx][artIdx] = args.retries
          /\ stderr[1].artifact = artifact
          /\ stderr[1].attempts = args.retries
          /\ fs[dir].marker = markerAtStart
    /\ (ctxIdx >= 1 /\ artIdx >= 1 /\ pc # "except" /\ artIdx \notin verified
            /\ verifies[ctxIdx][artIdx] = args.retries)
          => Failed("exhausted")

\* every download succeeded, no digest matched
C5_Witness ==
    /\ Failed("exhausted")
    /\ args.retries = 2
    /\ verifies[ctxIdx][artIdx] = 2
    /\ downloads[ctxIdx][artIdx] = 2
    /\ stderr[1].artifact = disk

\* C6: an artifact has a download only when every artifact before it in
\* ctx.artifacts is verified, and when an artifact has exhausted its budget no
\* artifact after it has any download.
C6_StrictOrder ==
    /\ (ctxIdx >= 1 /\ pc # "idle") =>
          \A j \in AllArtifacts :
              downloads[ctxIdx][j] > 0 => \A i \in 1..(j - 1) : i \in verified
    /\ Failed("exhausted") =>
          \A j \in AllArtifacts : j > artIdx => downloads[ctxIdx][j] = 0

C6_Witness ==
    /\ Failed("exhausted")
    /\ Len(ctx.artifacts) = 2
    /\ artIdx = 1
    /\ downloads[ctxIdx] = <<2, 0>>

\* C7: however an invocation ends (returned, failed or terminated; the
\* configuration being the same in all invocations), a marker exists in the dir of a
\* configured release only if each of its configured artifacts is on disk with
\* the digest that the marker's manifest lists for it.
C7_MarkerImpliesArtifactsMatch ==
    pc = "exited" =>
        \A i \in 1..Len(contexts) :
            LET d == release_dir(contexts[i])
                marker == fs[d].marker
            IN  marker # <<>> =>
                    \A j \in 1..Len(contexts[i].artifacts) :
                        LET a == contexts[i].artifacts[j]
                            sums == parse_checksums(marker[1])
                        IN  /\ fs[d].files[a] # "absent"
                            /\ InChecksums(sums, a)
                            /\ SameDigest(
                                   calculate_digest(fs[d].files[a],
                                       detect_hash_algorithm(contexts[i].checksum_file).algo),
                                   ChecksumOf(sums, a))

\* C8: the contexts are synchronised one at a time in list order; an error ends
\* main with exit code 1 and one printed line, nothing being fetched for the
\* contexts after the failing one and the markers committed before it standing;
\* exit code 0 means that every context returned 'updated' or 'skipped'.
C8_FirstErrorTerminal ==
    /\ (ctxIdx >= 1 /\ pc # "idle") =>
          /\ Len(results) \in {ctxIdx - 1, ctxIdx}
          /\ \A i \in 1..Len(contexts) :
                /\ i > ctxIdx => fetches[i] = 0 /\ NoDownloads(i)
                /\ i < ctxIdx => fetches[i] = 1 /\ i <= Len(results)
    /\ (pc = "exited" /\ stderr # <<>>) =>
          /\ exitCode = 1
          /\ Len(stderr) = 1
          /\ stderr[1].err = "ConfigError" => contexts = <<>> /\ fetches = <<>>
          /\ stderr[1].err = "SyncError" =>
                /\ Len(results) = ctxIdx - 1
                /\ \A i \in 1..Len(results) :
                      results[i].r = "updated" =>
                          fs[release_dir(contexts[i])].marker = <<results[i].text>>
    /\ (pc = "exited" /\ exitCode = 1) => Len(stderr) = 1
    /\ (pc = "exited" /\ exitCode = 0) =>
          /\ stderr = <<>>
          /\ Len(results) = Len(contexts)
          /\ \A i \in 1..Len(results) : results[i].r \in {"updated", "skipped"}

C8_Witness ==
    /\ SyncFailed
    /\ exitCode = 1
    /\ Len(contexts) = 2
    /\ ctxIdx = 1
    /\ fetches = <<1, 0>>

\* C9: a failed attempt that is not the last of the budget raises nothing: the
\* next attempt of the same artifact follows; an attempt that verifies is
\* followed by the next artifact or, after the last one, by the commit that
\* writes the marker and returns 'updated'; an artifact that exhausted the
\* budget had `retries` attempts and none of them verified.
C9_RetryWithinBudget ==
    /\ [](Failed("exhausted") =>
              artIdx \notin verified /\ downloads[ctxIdx][artIdx] = args.retries)
    /\ [][(pc = "except" /\ attempt < args.retries) =>
              /\ pc' = "download"
              /\ artIdx' = artIdx
              /\ attempt' = attempt + 1
              /\ stderr' = <<>>]_vars
    /\ [][(pc = "digest" /\ artIdx \in verified') =>
              IF artIdx < Len(ctx.artifacts)
              THEN pc' = "download" /\ artIdx' = artIdx + 1 /\ attempt' = 1
              ELSE pc' = "commit"]_vars
    /\ [][pc = "commit" => pc' = "rename"]_vars
    /\ [][pc = "rename" =>
              /\ fs'[dir].marker = <<checksum_text>>
              /\ results' = Append(results, [r |-> "updated", text |-> checksum_text])]_vars

\* the first attempt of the first artifact failed, the second verified
C9_Witness ==
    /\ pc = "exited"
    /\ exitCode = 0
    /\ Len(results) = 1
    /\ results[1].r = "updated"
    /\ downloads[1][1] = 2
    /\ fs[release_dir(contexts[1])].marker = <<results[1].text>>

\* main ended inside sync_release, whose manifest fetch returned no text
FetchFailed ==
    /\ pc = "exited"
    /\ ctxIdx >= 1
    /\ Len(results) < ctxIdx
    /\ fetches[ctxIdx] = 1
    /\ checksum_text = <<>>

\* C10: a manifest is fetched at most once per sync_release, and a failed fetch
\* ends sync_release with a SyncError after that one fetch, without any
\* download and with the marker as it was.
C10_FetchFailureImmediate ==
    /\ \A i \in 1..Len(fetches) : fetches[i] <= 1
    /\ FetchFailed =>
          /\ Failed("fetch")
          /\ NoDownloads(ctxIdx)
          /\ fs[dir].marker = markerAtStart

\* main has built its contexts, or failed to
Loaded == pc \notin {"idle", "load"} /\ args.retries >= 1

\* what load_config returns for each configuration file
LoadedConfigs ==
    [id \in 1..(Len(ConfigFiles) + Len(NamedConfigFiles) + Len(InvalidConfigFiles)) |->
        load_config(ConfigFileAt(id))]

\* the 'distros' mapping of the configuration file, when load_config returns it
Distros == LoadedConfigs[configId].distros

\* the distro names that are processed: the requested ones, or all
Selected ==
    IF args.distro # <<>> THEN {args.distro[i] : i \in 1..Len(args.distro)}
    ELSE {Distros.v[i].k : i \in 1..Len(Distros.v)}

\* the release names configured under the selected distros that are defined
SelectedReleases ==
    UNION {{Get(Get(Distros, d, None), kReleases, Map(<<>>)).v[i].k :
               i \in 1..Len(Get(Get(Distros, d, None), kReleases, Map(<<>>)).v)} :
           d \in {x \in Selected : HasKey(Distros, x)}}

\* C11: when the configuration loads, (a) a requested distro name that is not
\* defined makes main fail with a ConfigError and no context is returned, the
\* error naming the first such distro unless a distro requested before it failed
\* validation; (b) a release filter that names no configured release causes no
\* error about a release or about the filter: no context is returned; (c) every
\* context returned is of a selected, defined distro and, when a release filter
\* is given, of a release named in it.
C11_FilterHandling ==
    (Loaded /\ LoadedConfigs[configId].err = "") =>
        /\ (\E d \in Selected : ~HasKey(Distros, d)) =>
               /\ pc = "exited" /\ exitCode = 1
               /\ stderr[1].err = "ConfigError"
               /\ contexts = <<>>
               /\ fetches = <<>>
               /\ stderr[1].what \in {"distro not defined", "baseURL", "releases",
                                      "remoteChecksums", "artifacts"}
               /\ stderr[1].what = "distro not defined" =>
                      /\ ~HasKey(Distros, stderr[1].who)
                      /\ InFilter(args.distro, stderr[1].who)
        /\ (/\ args.release # <<>>
            /\ \A d \in Selected : HasKey(Distros, d)
            /\ \A r \in SelectedReleases : ~InFilter(args.release, r)) =>
               /\ contexts = <<>>
               /\ stderr = <<>> \/ stderr[1].what \in {"baseURL", "releases"}
               /\ stderr = <<>> => pc = "exited" /\ exitCode = 0
        /\ \A i \in 1..Len(contexts) :
               /\ contexts[i].distro \in Selected
               /\ HasKey(Distros, contexts[i].distro)
               /\ args.release # <<>> => InFilter(args.release, contexts[i].release)

\* the contexts of 'deb' were collected when 'nope' was found not to be defined
C11_Witness ==
    /\ pc = "exited"
    /\ args.distro = <<deb, nope>>
    /\ args.release = <<>>
    /\ configId = 2
    /\ stderr = <<ConfigError("distro not defined", nope)>>
    /\ contexts = <<>>

\* the URL rule of the claim: each part trimmed of '/' at both ends, the
\* non-empty parts joined with one '/'
UrlByRule(base, release, segment, filename) ==
    Join(SelectSeq(<< Strip(base, "/"), Strip(release, "/"), Strip(segment, "/"),
                      Strip(filename, "/") >>, NonEmpty), <<"/">>)

\* the places where url has two '/' in a row
DoubleSlashes(url) == {i \in 1..(Len(url) - 1) : url[i] = "/" /\ url[i + 1] = "/"}

\* C12: the checksum URL and each artifact URL of a context are what the rule
\* gives for the manifest file name and for the artifact name; with an empty
\* release-URL segment the artifact URL has no '//' but the scheme's.
C12_UrlsByOneRule ==
    (call.fn = "urls" /\ ret # <<>>) =>
        LET c == call.ctx
        IN  /\ ret[1].checksum_url = UrlByRule(c.base_url, c.release, c.release_url, c.checksum_file)
            /\ \A j \in 1..Len(c.artifacts) :
                   /\ ret[1].artifact_urls[j] =
                          UrlByRule(c.base_url, c.release, c.release_url, c.artifacts[j])
                   /\ c.release_url = <<>> =>
                          DoubleSlashes(ret[1].artifact_urls[j]) \subseteq {3}

\* the algorithm names in the order of the claim
AlgorithmsByClaim ==
    << <<"s","h","a","5","1","2">>, <<"s","h","a","3","8","4">>,
       <<"s","h","a","2","5","6">>, <<"s","h","a","1">>, <<"m","d","5">> >>

\* x and y are the same character, the case of a letter apart
SameLetter(x, y) ==
    \/ x = y
    \/ x \in DOMAIN UpperToLower /\ UpperToLower[x] = y
    \/ y \in DOMAIN UpperToLower /\ UpperToLower[y] = x

\* name occurs in filename, the case of the letters apart
OccursIgnoringCase(name, filename) ==
    \E i \in 1..(Len(filename) - Len(name) + 1) :
        \A k \in 1..Len(name) : SameLetter(filename[i + k - 1], name[k])

\* the positions, in the claim's order, of the algorithms the file name names
NamedIn(filename) ==
    {i \in 1..Len(AlgorithmsByClaim) : OccursIgnoringCase(AlgorithmsByClaim[i], filename)}

\* C13: once the manifest is fetched and line 241 has run, the algorithm used
\* is the first of sha512, sha384, sha256, sha1, md5 that occurs in the
\* manifest file name, the case of the letters apart, and every digest is
\* computed with it; when none occurs sync_release has failed with
\* detect_hash_algorithm's SyncError, no artifact having been downloaded and the
\* marker and its temp file being as they were.
C13_FirstAlgorithmOrError ==
    (ctxIdx >= 1 /\ checksum_text # <<>> /\ pc # "parse") =>
        LET named == NamedIn(ctx.checksum_file)
        IN  IF named = {}
            THEN /\ Failed("algorithm")
                 /\ NoDownloads(ctxIdx)
                 /\ \A j \in AllArtifacts : verifies[ctxIdx][j] = 0
                 /\ fs[dir].marker = markerAtStart
                 /\ fs[dir].tmp_marker = <<>>
            ELSE /\ ~Failed("algorithm")
                 /\ detect_hash_algorithm(ctx.checksum_file).err = ""
                 /\ algorithm = AlgorithmsByClaim[CHOOSE i \in named : \A j \in named : i <= j]

\* a file name without any algorithm name: the error, and nothing downloaded
C13_Witness ==
    /\ Failed("algorithm")
    /\ ctx.checksum_file = <<"s","h","a","-","2","5","6">>
    /\ fetches[ctxIdx] = 1
    /\ NoDownloads(ctxIdx)

\* C14: after a failed attempt the destination of the artifact holds no file:
\* when the next attempt starts, and when sync_release has raised because the
\* budget is exhausted; in that case no file whose digest differs from the
\* manifest's is at the destination and no temp file of a download is left in
\* the release dir.
C14_FailedAttemptsCleanUp ==
    /\ (pc = "download" /\ attempt > 1) => fs[dir].files[artifact] = "absent"
    /\ Failed("exhausted") =>
          /\ fs[dir].files[artifact] = "absent"
          /\ fs[dir].files[artifact] # "absent" =>
                 SameDigest(calculate_digest(fs[dir].files[artifact], algorithm),
                            ChecksumOf(checksums, artifact))
          /\ \A n \in Names : fs[dir].tmps[n] = 0

\* two values are equal: the same kind and, for a kind, the same content
RECURSIVE SameValue(_, _)
SameValue(x, y) ==
    /\ x.t = y.t
    /\ CASE x.t \in {"str", "bool"} -> x.v = y.v
         [] x.t = "list" ->
                /\ Len(x.v) = Len(y.v)
                /\ \A i \in 1..Len(x.v) : SameValue(x.v[i], y.v[i])
         [] x.t = "map" ->
                /\ Len(x.v) = Len(y.v)
                /\ \A i \in 1..Len(x.v) :
                       x.v[i].k = y.v[i].k /\ SameValue(x.v[i].val, y.v[i].val)
         [] OTHER -> TRUE

\* r is the ConfigError with that message and line number
IsConfigError(r, what, lineno) ==
    r.err = "ConfigError" /\ r.what = what /\ r.who = lineno

\* load_simple_yaml has run on a text that has tokens
YamlRan ==
    /\ call.fn = "load_simple_yaml"
    /\ ret # <<>>
    /\ ret[1].tokens.err = ""
    /\ ret[1].tokens.tokens # <<>>

toks == ret[1].tokens.tokens
out == ret[1].result

\* the key of a token, and whether a value follows the separator on its line
KeyOf(token) == strip(Partition(token.content).key)
IsEntry(token) == Contains(token.content, <<":">>) /\ ~StartsWithItem(token.content)
HasValue(token) == IsEntry(token) /\ strip(Partition(token.content).remainder) # <<>>
Opens(token) == IsEntry(token) /\ strip(Partition(token.content).remainder) = <<>>

\* the block opened at the first token's indent reads the first i tokens
\* without an error and is then at the end of them
PrefixOk(i) ==
    LET r == parse_block(SubSeq(toks, 1, i), 1, toks[1].indent)
    IN  r.err = "" /\ r.index = i + 1

\* no later entry of the block at indent d sets the key of token i again
LastWithKey(i, d) ==
    \A j \in (i + 1)..Len(toks) :
        (toks[j].indent = d /\ IsEntry(toks[j])) => KeyOf(toks[j]) # KeyOf(toks[i])

\* C15, for the block that load_simple_yaml opens at the indent d of the first
\* token: (a) tokens that are all entries with a value at indent d are all
\* consumed, each key mapped to its scalar; (b) a token that the block comes
\* upon with a larger indent, not being the first token of a nested value
\* (it follows an entry with a value or a scalar item and is more indented, or
\* it is less indented than the token before it, more than d, and at an indent
\* no token before it has), raises ConfigError 'Unexpected indentation' with
\* its line number; (c) a token with a smaller indent than d ends the block at
\* that token, not consumed, so that load_simple_yaml raises ConfigError;
\* (d) an entry without a value followed by no token or by one that is not more
\* indented maps its key to the empty mapping; (e) followed by a more indented
\* token, it maps its key to the sequence or the mapping parsed from that token
\* on at that token's indent: a sequence exactly when the token starts with the
\* item marker; (f) load_simple_yaml returns only when parse_block has consumed
\* every token, and raises ConfigError otherwise.
C15_MappingBlock ==
    YamlRan =>
        LET n == Len(toks)
            d == toks[1].indent
            blk == parse_block(toks, 1, d)
        IN  /\ (\A k \in 1..n : toks[k].indent = d /\ HasValue(toks[k])) =>
                   /\ out.err = ""
                   /\ blk.index = n + 1
                   /\ \A k \in 1..n : LastWithKey(k, d) =>
                          SameValue(Get(out.value, KeyOf(toks[k]), None),
                                    parse_scalar(Partition(toks[k].content).remainder))
            /\ \A i \in 2..n :
                   (/\ PrefixOk(i - 1)
                    /\ \/ toks[i].indent > toks[i - 1].indent /\ ~Opens(toks[i - 1])
                       \/ /\ toks[i].indent < toks[i - 1].indent
                          /\ toks[i].indent > d
                          /\ \A j \in 1..(i - 1) : toks[j].indent # toks[i].indent)
                       => IsConfigError(out, "Unexpected indentation", toks[i].lineno)
            /\ \A i \in 2..n :
                   (PrefixOk(i - 1) /\ toks[i].indent < d) =>
                       /\ blk.err = ""
                       /\ blk.index = i
                       /\ SameValue(blk.value, parse_block(SubSeq(toks, 1, i - 1), 1, d).value)
                       /\ IsConfigError(out, "Unexpected trailing content", 0)
            /\ \A i \in 1..n :
                   (/\ out.err = ""
                    /\ toks[i].indent = d
                    /\ Opens(toks[i])
                    /\ LastWithKey(i, d)) =>
                       IF i = n \/ toks[i + 1].indent <= d
                       THEN SameValue(Get(out.value, KeyOf(toks[i]), None), Map(<<>>))
                       ELSE LET next == toks[i + 1]
                                v == Get(out.value, KeyOf(toks[i]), None)
                            IN  /\ v.t = IF StartsWithItem(next.content) THEN "list" ELSE "map"
                                /\ v.t = "list" =>
                                       SameValue(v, parse_list(toks, i + 1, next.indent).value)
                                /\ v.t = "map" =>
                                       /\ SameValue(v, parse_block(toks, i + 1, next.indent).value)
                                       /\ HasKey(v, KeyOf(next))
            /\ out.err \in {"", "ConfigError"}
            /\ out.err = "" => blk.err = "" /\ blk.index = n + 1

\* after a comment line, an entry with a value is followed by a more indented
\* token: the error names line 3, the second token
C15_Witness ==
    /\ YamlRan
    /\ call.text = << <<"#"," ","c">>, <<"b",":"," ","x">>, <<" "," ","b",":"," ","x">> >>
    /\ Len(toks) = 2
    /\ PrefixOk(1)
    /\ IsConfigError(out, "Unexpected indentation", 3)

\* C16, for a sequence opened under the first token, an entry without a value:
\* when the second token, more indented, holds only the item marker and the
\* tokens after it are all at least as indented as the third, which is more
\* indented than the second, and form a mapping or a sequence when parsed at the
\* third token's indent, then the key is mapped to a sequence whose one item is
\* that mapping or sequence; when the second token is an item marker followed by
\* text and is the last token, the key is mapped to a sequence of one scalar.
C16_EmptyItemTakesNestedValue ==
    (YamlRan /\ Len(toks) >= 2 /\ Opens(toks[1]) /\ toks[2].indent > toks[1].indent) =>
        LET n == Len(toks)
            rest == SubSeq(toks, 3, n)
            asBlock == parse_block(rest, 1, toks[3].indent)
            asList == parse_list(rest, 1, toks[3].indent)
            nested == IF StartsWithItem(toks[3].content) THEN asList ELSE asBlock
        IN  /\ (/\ toks[2].content = <<"-">>
                /\ n >= 3
                /\ toks[3].indent > toks[2].indent
                /\ \A j \in 3..n : toks[j].indent >= toks[3].indent
                /\ nested.err = ""
                /\ nested.index = Len(rest) + 1) =>
                   /\ out.err = ""
                   /\ SameValue(Get(out.value, KeyOf(toks[1]), None), List(<<nested.value>>))
            /\ (n = 2 /\ StartsWithItem(toks[2].content)) =>
                   /\ out.err = ""
                   /\ SameValue(Get(out.value, KeyOf(toks[1]), None),
                          List(<<parse_scalar(SubSeq(toks[2].content, 3, Len(toks[2].content)))>>))
                   /\ Get(out.value, KeyOf(toks[1]), None).v[1].t \in {"str", "bool"}

\* the text is wrapped in one pair of the same quote character
WrappedInPair(text) ==
    Len(text) >= 2 /\ text[1] \in {SQ, DQ} /\ text[Len(text)] = text[1]

\* C17: parse_scalar of a text, trimmed of spaces: the empty text gives the
\* empty string; a text wrapped in one pair of the same quote character gives
\* the text between the quotes as a string, whatever it is; any other text is
\* not unquoted: it gives a boolean when it is true or false in any letter
\* case, and itself otherwise (so a text that starts with one quote character
\* and ends with the other, or is one quote character, is returned as it is).
C17_UnquoteMatchingPairOnly ==
    (call.fn = "parse_scalar" /\ ret # <<>>) =>
        LET text == Strip(call.value, " ")
        IN  SameValue(ret[1],
                IF text = <<>> THEN Str(<<>>)
                ELSE IF WrappedInPair(text) THEN Str(SubSeq(text, 2, Len(text) - 1))
                ELSE IF Lower(text) = LiteralTrue THEN Bool(TRUE)
                ELSE IF Lower(text) = LiteralFalse THEN Bool(FALSE)
                ELSE Str(text))

\* a value with its booleans and the strings that spell one made the same
RECURSIVE Coerced(_)
Coerced(value) ==
    CASE value.t = "bool" -> Str(IF value.v THEN LiteralTrue ELSE LiteralFalse)
      [] value.t = "str" ->
             IF Lower(value.v) \in {LiteralTrue, LiteralFalse} THEN Str(Lower(value.v)) ELSE value
      [] value.t = "list" -> List([i \in 1..Len(value.v) |-> Coerced(value.v[i])])
      [] OTHER -> Map([i \in 1..Len(value.v) |-> Entry(value.v[i].k, Coerced(value.v[i].val))])

\* C18: the text written for a value built from mappings, sequences and scalars
\* is parsed without error into a value equal to the one written, booleans and
\* the strings that spell them taken as equal.
C18_RoundTrip ==
    (call.fn = "load_simple_yaml" /\ call.of # <<>> /\ ret # <<>>) =>
        /\ ret[1].result.err = ""
        /\ SameValue(Coerced(ret[1].result.value), Coerced(call.of[1]))

\* a distro block that iter_release_contexts must reject
InvalidDistro(cfg) ==
    \/ cfg.t # "map"
    \/ ~HasKey(cfg, kBaseURL)
    \/ Get(cfg, kBaseURL, None).t # "str"
    \/ Get(cfg, kBaseURL, None).v = <<>>
    \/ ~HasKey(cfg, kReleases)
    \/ Get(cfg, kReleases, None).t # "map"
    \/ Get(cfg, kReleases, None).v = <<>>

\* a release block that iter_release_contexts must reject
InvalidRelease(cfg) ==
    \/ cfg.t # "map"
    \/ ~HasKey(cfg, kRemoteChecksums)
    \/ Get(cfg, kRemoteChecksums, None).t # "str"
    \/ Get(cfg, kRemoteChecksums, None).v = <<>>
    \/ ~HasKey(cfg, kArtifacts)
    \/ Get(cfg, kArtifacts, None).t # "list"
    \/ Get(cfg, kArtifacts, None).v = <<>>

\* some selected distro is not defined or invalid, or some release of a
\* selected distro that the release filter lets through is invalid
SelectionInvalid ==
    \E d \in Selected :
        \/ ~HasKey(Distros, d)
        \/ InvalidDistro(Get(Distros, d, None))
        \/ LET releases == Get(Get(Distros, d, None), kReleases, None).v
           IN  \E i \in 1..Len(releases) :
                   /\ args.release = <<>> \/ InFilter(args.release, releases[i].k)
                   /\ InvalidRelease(releases[i].val)

\* C19: no step taken before main has its list of contexts touches the images
\* directory; and when the configuration loads but some selected distro or
\* release fails validation, main has ended with a ConfigError without any
\* context, any manifest fetch, any download or any sync_release result, also
\* when valid releases come before the invalid one.
C19_ValidationBeforeSync ==
    /\ [][(pc = "idle" \/ pc = "load") => UNCHANGED fs]_vars
    /\ []((Loaded /\ LoadedConfigs[configId].err = "" /\ SelectionInvalid) =>
             /\ pc = "exited"
             /\ exitCode = 1
             /\ Len(stderr) = 1
             /\ stderr[1].err = "ConfigError"
             /\ contexts = <<>>
             /\ fetches = <<>>
             /\ downloads = <<>>
             /\ results = <<>>)

\* the first distro is valid and was synchronised by an earlier invocation
\* that asked for it alone; the second one, after it in the file, is rejected
C19_Witness ==
    /\ pc = "exited"
    /\ args.distro = <<>> /\ args.release = <<>>
    /\ Len(stderr) = 1
    /\ stderr[1].err = "ConfigError"
    /\ stderr[1].who = alp
    /\ fetches = <<>>
    /\ fs[<<deb, r1>>].marker # <<>>

\* the download_file calls made for the artifacts of contexts[i], from the j-th on
RECURSIVE DownloadsFrom(_, _)
DownloadsFrom(i, j) ==
    IF j > Len(downloads[i]) THEN 0 ELSE downloads[i][j] + DownloadsFrom(i, j + 1)

\* main ended inside the sync_release call for contexts[ctxIdx]
EndedInSync == pc = "exited" /\ ctxIdx >= 1 /\ Len(results) < ctxIdx

\* one manifest fetch per sync_release; per artifact no more downloads than the
\* attempt budget, in total no more than budget times artifacts; no download of
\* an artifact that has verified
BoundedWork ==
    /\ \A i \in 1..Len(fetches) : fetches[i] <= 1
    /\ \A i \in 1..Len(downloads) :
          /\ \A j \in 1..Len(downloads[i]) : downloads[i][j] <= args.retries
          /\ DownloadsFrom(i, 1) <= args.retries * Len(contexts[i].artifacts)
    /\ pc \in {"download", "copy"} => artIdx \notin verified

\* a sync_release that was entered returns or raises
SyncReleaseEnds ==
    \A i \in 1..Cardinality(Dirs) :
        (pc = "fetch" /\ ctxIdx = i) ~> (pc = "exited" \/ Len(results) >= i)

\* C20: when every network call returns, a sync_release that was entered ends,
\* with 'updated', with 'skipped' or with a SyncError and with nothing else,
\* after at most one manifest fetch, at most `attempts` downloads of each
\* artifact and at most attempts times the number of artifacts downloads in all,
\* none of them of an artifact that had verified.
C20_BoundedWorkAndTermination ==
    /\ [](EndedInSync => SyncFailed)
    /\ [](\A i \in 1..Len(results) : results[i].r \in {"updated", "skipped"})
    /\ []BoundedWork
    /\ SyncReleaseEnds

=============================================================================
